---- MODULE Spec2Model ----
(***************************************************************************)
(* Zn (clock) spin model on a periodic L x L lattice, single-spin          *)
(* Metropolis updates, and the observable histories kept by update().      *)
(* Source: src/zn_model_code.py.                                           *)
(*                                                                         *)
(* Representation of real numbers:                                         *)
(*  - H is drawn from even integers, so the sum of the local energies is   *)
(*    even and calculate_total_energy's "/ 2" is exact (EnergySumEven      *)
(*    below checks it); energy is then an integer.                         *)
(*  - a temperature is the record [sign |-> s, p |-> p, q |-> q] standing  *)
(*    for the real s / ln(p / q) with p > q >= 1: sign 1 gives T > 0,      *)
(*    sign 0 gives T = 0, sign -1 gives T < 0.  Then exp(-d / T) is the    *)
(*    rational (q / p)^d for T > 0 and (p / q)^d for T < 0.  T is a numpy  *)
(*    float64, as every element of temperature_range is: d / T with T = 0  *)
(*    is -inf (a warning, not an exception) and exp(-inf) is 0.            *)
(*  - a uniform draw of np.random.rand() is k / URes, k in 0..URes-1.      *)
(*  - a rational is the record [num |-> p, den |-> q], not normalised.     *)
(***************************************************************************)
EXTENDS Integers, Sequences, FiniteSets, TLC

\* ---- bounds of the model ----
MaxL == 3
MaxN == 3
MaxLattices == 81
MaxFieldLattices == 16
MaxField == 1
URes == 4
MaxFrames == 2
MaxDriverLattices == 16
MaxPasses == 3
MaxPassesOneSite == 5

RECURSIVE Pow(_, _)
Pow(b, e) == IF e <= 0 THEN 1 ELSE b * Pow(b, e - 1)

\* b^e, or some number above cap when b^e > cap
RECURSIVE CappedPow(_, _, _)
CappedPow(b, e, cap) ==
  IF e <= 0 THEN 1
  ELSE LET p == CappedPow(b, e - 1, cap) IN IF p > cap THEN p ELSE b * p

HVals == {2 * h : h \in (-MaxField)..MaxField}

\* constructor arguments <<lattice_size, n_states, external_field>> whose
\* lattices are enumerated: at most MaxLattices lattices without a field, at
\* most MaxFieldLattices with one
Configs ==
  {c \in (0..MaxL) \X (1..MaxN) \X HVals :
     CappedPow(c[2], c[1] * c[1], MaxLattices)
       <= (IF c[3] = 0 THEN MaxLattices ELSE MaxFieldLattices)}

\* the script constructs ZnModel(lattice_size, n_states, temperature_range[0]):
\* external_field keeps its default 0
DriverConfigs ==
  {c \in (0..MaxL) \X (1..MaxN) \X {0} :
     CappedPow(c[2], c[1] * c[1], MaxDriverLattices) <= MaxDriverLattices}

Temp(s, p, q) == [sign |-> s, p |-> p, q |-> q]

\* 1 / ln(3/2) = 2.47, 1 / ln(2) = 1.44, 0 and -1 / ln(2) = -1.44
TVals == {Temp(1, 3, 2), Temp(1, 2, 1), Temp(0, 2, 1), Temp(-1, 2, 1)}

NoDraw == -1

VARIABLES
  L, n, T, H,            \* ZnModel fields set by __init__
  lattice,               \* self.lattice: [0..L-1 -> [0..L-1 -> 0..n-1]]
  energy, magnetization, \* the incrementally tracked scalars
  pc,                    \* "idle", "step" (inside metropolis_step), "raised"
  i,                     \* trials completed in the pass in flight
  x, y, old_spin, new_spin, delta_energy,  \* locals of the last trial
  u,                     \* the acceptance draw of the last trial, NoDraw if none
  outcome,               \* "none", "accepted", "rejected" for the last trial
  reads,                 \* lattice indices read by calculate_energy in the last trial
  error,                 \* "none" or the name of the exception raised
  frame,                 \* number of update() calls that returned
  energy_data, magnetization_data, specific_heat_data, susceptibility_data

vars == <<L, n, T, H, lattice, energy, magnetization, pc, i, x, y, old_spin,
          new_spin, delta_energy, u, outcome, reads, error, frame,
          energy_data, magnetization_data, specific_heat_data,
          susceptibility_data>>

fields == <<L, n, H>>
locals == <<x, y, old_spin, new_spin, delta_energy, u, outcome, reads>>
histories == <<frame, energy_data, magnetization_data, specific_heat_data,
               susceptibility_data>>

\* ---- Energy model ----

\* numpy indexing of one axis of length len: a negative index counts from the end
NpIndex(k, len) == IF k < 0 THEN k + len ELSE k

Cell(lat, len, p) == lat[NpIndex(p[1], len)][NpIndex(p[2], len)]

\* faulty variant: the "minus" neighbours are not wrapped (index -1 at the edge)
NeighborsNoWrap(px, py, len) ==
  << <<(px + 1) % len, py>>,
     <<px - 1, py>>,
     <<px, (py + 1) % len>>,
     <<px, py - 1>> >>

\* the four neighbour indices of (px, py), in the order of the list
Neighbors(px, py, len) ==
  << <<(px + 1) % len, py>>,
     <<(px - 1) % len, py>>,
     <<px, (py + 1) % len>>,
     <<px, (py - 1) % len>> >>

RECURSIVE SumSame(_, _, _, _, _)
SumSame(lat, len, spin, nb, k) ==
  IF k = 0 THEN 0
  ELSE (IF spin = Cell(lat, len, nb[k]) THEN 1 ELSE 0)
       + SumSame(lat, len, spin, nb, k - 1)

\* faulty variant: the Ising convention, +1 for an aligned pair and -1 otherwise
calculate_energy_ising(lat, len, h, px, py) ==
  LET spin == lat[px][py]
      neighbors == Neighbors(px, py, len)
      same == SumSame(lat, len, spin, neighbors, 4)
      field_energy == (0 - h) * (IF spin = 1 THEN 1 ELSE -1)
  IN (0 - (same - (4 - same))) + field_energy

calculate_energy(lat, len, h, px, py) ==
  LET spin == lat[px][py]
      neighbors == Neighbors(px, py, len)
      interaction_energy == 0 - SumSame(lat, len, spin, neighbors, 4)
      field_energy == (0 - h) * (IF spin = 1 THEN 1 ELSE -1)
  IN interaction_energy + field_energy

\* the double loop of calculate_total_energy: site k is (k \div len, k % len)
RECURSIVE SumLocal(_, _, _, _)
SumLocal(lat, len, h, k) ==
  IF k = 0 THEN 0
  ELSE SumLocal(lat, len, h, k - 1)
       + calculate_energy(lat, len, h, (k - 1) \div len, (k - 1) % len)

calculate_total_energy(lat, len, h) == SumLocal(lat, len, h, len * len) \div 2

RECURSIVE SumSpin(_, _, _)
SumSpin(lat, len, k) ==
  IF k = 0 THEN 0
  ELSE SumSpin(lat, len, k - 1)
       + (IF lat[(k - 1) \div len][(k - 1) % len] = 1 THEN 1 ELSE -1)

calculate_magnetization(lat, len) == SumSpin(lat, len, len * len)

\* ---- Metropolis step ----

ProposeSpin(old, r, ns) == (old + r) % ns

\* exp(-d / t) as a rational, for d > 0
NpExp(d, t) ==
  IF t.sign > 0 THEN [num |-> Pow(t.q, d), den |-> Pow(t.p, d)]
  ELSE IF t.sign = 0 THEN [num |-> 0, den |-> 1]
  ELSE [num |-> Pow(t.p, d), den |-> Pow(t.q, d)]

\* faulty variant: ">" for ">=", a draw equal to the probability is accepted
RandGt(k, q) == k * q.den > q.num * URes

\* np.random.rand() >= q, the draw being k / URes
RandGe(k, q) == k * q.den >= q.num * URes

\* the values np.random.rand() can return where line 48 calls it
Draws(d) == IF d > 0 THEN 0..(URes - 1) ELSE {NoDraw}

\* line 48: the proposal is reverted
Rejected(d, k, t) == d > 0 /\ RandGe(k, NpExp(d, t))

\* faulty variant: the tentative write is left in place
NoRevert(lat, px, py, old) == lat

Revert(lat, px, py, old) == [lat EXCEPT ![px][py] = old]

\* faulty variant: "=" for "+="
EnergyAssign(e, d) == d

EnergyUpdate(e, d) == e + d

\* faulty variant: every non-zero state counts +1
MagnetizationUpdateNonZero(m, new, old) ==
  m + ((IF new # 0 THEN 1 ELSE -1) - (IF old # 0 THEN 1 ELSE -1))

MagnetizationUpdate(m, new, old) ==
  m + ((IF new = 1 THEN 1 ELSE -1) - (IF old = 1 THEN 1 ELSE -1))

NoLocals ==
  /\ x' = 0 /\ y' = 0 /\ old_spin' = 0 /\ new_spin' = 0 /\ delta_energy' = 0
  /\ u' = NoDraw /\ outcome' = "none" /\ reads' = <<>>

\* ZnModel.__init__ for every lattice np.random.randint(0, n, (L, L)) can return
Constructed(cfgs, ts) ==
  /\ \E c \in cfgs : L = c[1] /\ n = c[2] /\ H = c[3]
  /\ T \in ts
  /\ lattice \in [0..(L - 1) -> [0..(L - 1) -> 0..(n - 1)]]
  /\ energy = calculate_total_energy(lattice, L, H)
  /\ magnetization = calculate_magnetization(lattice, L)
  /\ pc = "idle" /\ i = 0
  /\ x = 0 /\ y = 0 /\ old_spin = 0 /\ new_spin = 0 /\ delta_energy = 0
  /\ u = NoDraw /\ outcome = "none" /\ reads = <<>>
  /\ error = "none"
  /\ frame = 0
  /\ energy_data = <<>> /\ magnetization_data = <<>>
  /\ specific_heat_data = <<>> /\ susceptibility_data = <<>>

PositiveTVals == {t \in TVals : t.sign > 0}

Init == Constructed(Configs, PositiveTVals)

\* metropolis_step is entered: the loop of L * L trials starts
MetropolisStepBegin ==
  /\ pc = "idle" /\ error = "none"
  /\ pc' = "step" /\ i' = 0
  /\ UNCHANGED <<fields, T, lattice, energy, magnetization, locals, error,
                 histories>>

\* one iteration of the loop of metropolis_step (lines 39-52)
Trial ==
  /\ pc = "step" /\ i < L * L /\ error = "none"
  /\ \E px \in 0..(L - 1), py \in 0..(L - 1) :
       LET current_energy == calculate_energy(lattice, L, H, px, py) IN
       IF n < 2
       THEN \* np.random.randint(1, n) raises ValueError (low >= high)
            /\ error' = "ValueError" /\ pc' = "raised"
            /\ x' = px /\ y' = py /\ reads' = Neighbors(px, py, L)
            /\ UNCHANGED <<old_spin, new_spin, delta_energy, u, outcome, i,
                           lattice, energy, magnetization>>
       ELSE \E r \in 1..(n - 1) :
            LET new == ProposeSpin(lattice[px][py], r, n)
                old == lattice[px][py]
                written == [lattice EXCEPT ![px][py] = new]
                new_energy == calculate_energy(written, L, H, px, py)
                d == new_energy - current_energy
            IN \* "and" short-circuits: np.random.rand() is called only if d > 0
               \E k \in Draws(d) :
               /\ x' = px /\ y' = py /\ reads' = Neighbors(px, py, L)
               /\ old_spin' = old /\ new_spin' = new /\ delta_energy' = d
               /\ u' = k
               /\ IF Rejected(d, k, T)
                  THEN /\ lattice' = Revert(written, px, py, old)
                       /\ outcome' = "rejected"
                       /\ UNCHANGED <<energy, magnetization>>
                  ELSE /\ lattice' = written
                       /\ outcome' = "accepted"
                       /\ energy' = EnergyUpdate(energy, d)
                       /\ magnetization' = MagnetizationUpdate(magnetization, new, old)
               /\ i' = i + 1
               /\ UNCHANGED <<pc, error>>
  /\ UNCHANGED <<fields, T, histories>>

\* metropolis_step returns after L * L trials
MetropolisStepEnd ==
  /\ pc = "step" /\ i = L * L /\ error = "none"
  /\ pc' = "idle" /\ i' = 0
  /\ NoLocals
  /\ UNCHANGED <<fields, T, lattice, energy, magnetization, error, histories>>

Next == MetropolisStepBegin \/ Trial \/ MetropolisStepEnd

Spec == Init /\ [][Next]_vars

\* ---- the script: update(frame) for frame = 0, 1, ..., n_steps - 1 ----

\* len(temperature_range)
n_steps == MaxFrames

\* the values temperature_range[f] can have, over every schedule whose first
\* element is the temperature the model was constructed with (line 61)
temperature_range(f) == IF f = 0 THEN {T} ELSE TVals

RECURSIVE SumSeq(_, _)
SumSeq(xs, k) == IF k = 0 THEN 0 ELSE SumSeq(xs, k - 1) + xs[k]

RECURSIVE SumSqDev(_, _, _)
SumSqDev(xs, s, k) ==
  IF k = 0 THEN 0
  ELSE SumSqDev(xs, s, k - 1) + (Len(xs) * xs[k] - s) * (Len(xs) * xs[k] - s)

\* faulty variant: the variance of the last two entries, not of the whole list
NpVarLastTwo(xs) ==
  LET w == IF Len(xs) > 2 THEN SubSeq(xs, Len(xs) - 1, Len(xs)) ELSE xs
  IN [num |-> SumSqDev(w, SumSeq(w, Len(w)), Len(w)),
      den |-> Len(w) * Len(w) * Len(w)]

\* faulty variant: the sample variance (ddof = 1)
NpVarSample(xs) ==
  [num |-> SumSqDev(xs, SumSeq(xs, Len(xs)), Len(xs)),
   den |-> Len(xs) * Len(xs) * (Len(xs) - 1)]

\* np.var: the mean of (x - mean(xs))^2, as the rational
\* sum((len * x - sum(xs))^2) / len^3
NpVar(xs) ==
  [num |-> SumSqDev(xs, SumSeq(xs, Len(xs)), Len(xs)),
   den |-> Len(xs) * Len(xs) * Len(xs)]

\* var / (lattice_size**2 * T**tpow), kept as the operands of the quotient
Quotient(var, size, t, tpow) ==
  [var |-> var, size2 |-> size * size, T |-> t, Tpow |-> tpow]

SpecificHeat(es, size, t) == Quotient(NpVar(es), size, t, 2)

Susceptibility(ms, size, t) == Quotient(NpVar(ms), size, t, 1)

InitUpdate == Constructed(DriverConfigs, TVals)

\* update(frame), lines 89-90: the temperature is set and metropolis_step entered
UpdateBegin ==
  /\ pc = "idle" /\ error = "none" /\ frame < n_steps
  /\ T' \in temperature_range(frame)
  /\ pc' = "step" /\ i' = 0
  /\ UNCHANGED <<fields, lattice, energy, magnetization, locals, error, histories>>

\* update(frame), lines 94-105, once metropolis_step has returned
UpdateEnd ==
  /\ pc = "step" /\ i = L * L /\ error = "none"
  /\ energy_data' = Append(energy_data, energy)
  /\ magnetization_data' = Append(magnetization_data, magnetization)
  /\ IF Len(energy_data') > 1
     THEN /\ specific_heat_data' =
               Append(specific_heat_data, SpecificHeat(energy_data', L, T))
          /\ susceptibility_data' =
               Append(susceptibility_data, Susceptibility(magnetization_data', L, T))
     ELSE UNCHANGED <<specific_heat_data, susceptibility_data>>
  /\ frame' = frame + 1
  /\ pc' = "idle" /\ i' = 0
  /\ NoLocals
  /\ UNCHANGED <<fields, T, lattice, energy, magnetization, error>>

NextUpdate == UpdateBegin \/ Trial \/ UpdateEnd

SpecUpdate == InitUpdate /\ [][NextUpdate]_vars

\* ---- the script with update(frame) as one step, for longer histories ----

\* lines 40-47 for the site (px, py) and the offset r of
\* np.random.randint(1, n): delta_energy
TrialDelta(s, len, ns, h, px, py, r) ==
  LET written == [s[1] EXCEPT ![px][py] = ProposeSpin(s[1][px][py], r, ns)]
  IN calculate_energy(written, len, h, px, py)
       - calculate_energy(s[1], len, h, px, py)

\* lines 42-52: <<lattice, energy, magnetization>> after the trial whose
\* delta_energy is d and whose acceptance draw is k
TrialResult(s, ns, t, px, py, r, d, k) ==
  LET old == s[1][px][py]
      new == ProposeSpin(old, r, ns)
      written == [s[1] EXCEPT ![px][py] = new]
  IN IF Rejected(d, k, t)
     THEN <<Revert(written, px, py, old), s[2], s[3]>>
     ELSE <<written, EnergyUpdate(s[2], d), MagnetizationUpdate(s[3], new, old)>>

\* every <<lattice, energy, magnetization>> one trial can leave, n_states >= 2
TrialResults(s, len, ns, h, t) ==
  UNION {UNION {LET d == TrialDelta(s, len, ns, h, p[1], p[2], r)
                IN {TrialResult(s, ns, t, p[1], p[2], r, d, k) : k \in Draws(d)} :
                r \in 1..(ns - 1)} :
         p \in (0..(len - 1)) \X (0..(len - 1))}

\* line 38: every result of k more trials from a state of S
RECURSIVE AfterTrials(_, _, _, _, _, _)
AfterTrials(S, k, len, ns, h, t) ==
  IF k = 0 THEN S
  ELSE AfterTrials(UNION {TrialResults(s, len, ns, h, t) : s \in S},
                   k - 1, len, ns, h, t)

\* frames explored: MaxPasses, and MaxPassesOneSite where the lattice has at
\* most one site and a pass is at most one trial
Frames(len) == IF len <= 1 THEN MaxPassesOneSite ELSE MaxPasses

\* the schedules of the script keep T > 0
InitScript == Constructed(DriverConfigs, PositiveTVals)

\* update(frame), lines 89-105, frame = 0, 1, ...: the temperature is set,
\* metropolis_step runs its L * L trials, the observables are appended
UpdateFrame ==
  /\ pc = "idle" /\ error = "none" /\ frame < Frames(L)
  /\ \E t \in (IF frame = 0 THEN {T} ELSE PositiveTVals) :
       /\ T' = t
       /\ IF L >= 1 /\ n < 2
          THEN \* np.random.randint(1, n) raises ValueError in the first trial
               /\ error' = "ValueError" /\ pc' = "raised"
               /\ UNCHANGED <<lattice, energy, magnetization, histories>>
          ELSE \E s \in AfterTrials({<<lattice, energy, magnetization>>},
                                    L * L, L, n, H, t) :
               /\ lattice' = s[1] /\ energy' = s[2] /\ magnetization' = s[3]
               /\ energy_data' = Append(energy_data, s[2])
               /\ magnetization_data' = Append(magnetization_data, s[3])
               /\ IF Len(energy_data') > 1
                  THEN /\ specific_heat_data' =
                            Append(specific_heat_data,
                                   SpecificHeat(energy_data', L, t))
                       /\ susceptibility_data' =
                            Append(susceptibility_data,
                                   Susceptibility(magnetization_data', L, t))
                  ELSE UNCHANGED <<specific_heat_data, susceptibility_data>>
               /\ frame' = frame + 1
               /\ UNCHANGED <<pc, error>>
  /\ UNCHANGED <<fields, i, locals>>

NextScript == UpdateFrame

SpecScript == InitScript /\ [][NextScript]_vars

\* ---- properties ----

TypeOK ==
  /\ pc \in {"idle", "step", "raised"}
  /\ error \in {"none", "ValueError"}
  /\ i \in 0..(L * L)

\* the halving in calculate_total_energy is exact for the fields of HVals
EnergySumEven == SumLocal(lattice, L, H, L * L) % 2 = 0

Sites == (0..(L - 1)) \X (0..(L - 1))

ValidConfig == L >= 1 /\ n >= 2

\* the step is one trial of a pass that did not raise
TrialStep == pc = "step" /\ pc' = "step" /\ i' = i + 1

\* C1: for every valid configuration, H # 0 included, the tracked energy
\* equals calculate_total_energy() of the current lattice after every
\* completed pass.
C1_EnergyConsistentAfterPass ==
  (ValidConfig /\ T.sign > 0 /\ pc = "idle")
    => energy = calculate_total_energy(lattice, L, H)

\* C2: after construction and after every trial, magnetization is the number
\* of cells holding state 1 minus the number of cells holding any other state.
C2_MagnetizationConsistent ==
  ValidConfig =>
    magnetization = Cardinality({p \in Sites : lattice[p[1]][p[2]] = 1})
                    - Cardinality({p \in Sites : lattice[p[1]][p[2]] # 1})

C2_Witness ==
  /\ L = 2 /\ n = 3 /\ outcome = "accepted" /\ old_spin = 1 /\ new_spin = 2
  /\ magnetization = -2

\* C3: a rejected trial leaves the chosen cell, every other cell, energy and
\* magnetization as they were before the trial.
C3_RejectionRestores ==
  [][(TrialStep /\ outcome' = "rejected")
       => /\ lattice'[x'][y'] = lattice[x'][y']
          /\ lattice' = lattice
          /\ energy' = energy
          /\ magnetization' = magnetization]_vars

C3_Witness ==
  /\ outcome = "rejected" /\ L = 2 /\ lattice[x][y] = old_spin
  /\ new_spin # old_spin

Checkerboard == [a \in 0..1 |-> [b \in 0..1 |-> IF a = b THEN 0 ELSE 1]]

IsCheckerboard == L = 2 /\ n = 2 /\ H = 0 /\ lattice = Checkerboard

\* C4 as stated: for L=2, n=2, H=0 and the lattice [[0,1],[1,0]],
\* calculate_total_energy() returns +4.
C4_CheckerboardEnergyFour ==
  IsCheckerboard => calculate_total_energy(lattice, L, H) = 4

\* C4 amended: for L=2, n=2, H=0 and the lattice [[0,1],[1,0]],
\* calculate_total_energy() returns 0 (no neighbour pair is aligned).
C4_CheckerboardEnergyZero ==
  IsCheckerboard => calculate_total_energy(lattice, L, H) = 0

C4_Witness == IsCheckerboard /\ pc = "idle" /\ outcome = "none" /\ energy = 0

\* u < exp(-d / t) for the draw u = k / URes and d > 0
DrawBelowExp(k, d, t) ==
  CASE t.sign > 0 -> k * Pow(t.p, d) < URes * Pow(t.q, d)
    [] t.sign = 0 -> FALSE
    [] OTHER -> TRUE

\* C5: in every trial, delta_energy <= 0 is accepted with no acceptance draw;
\* delta_energy > 0 makes exactly one draw u and is accepted iff
\* u < exp(-delta_energy / T), otherwise reverted; an accepted proposal stays
\* in the cell, adds delta_energy to energy and
\* contribution(new) - contribution(old) to magnetization.
C5_AcceptanceRule ==
  [][TrialStep
       => /\ delta_energy' <= 0 => (outcome' = "accepted" /\ u' = NoDraw)
          /\ delta_energy' > 0
               => /\ u' \in 0..(URes - 1)
                  /\ outcome' = "accepted" <=> DrawBelowExp(u', delta_energy', T)
          /\ outcome' = "accepted"
               => /\ lattice' = [lattice EXCEPT ![x'][y'] = new_spin']
                  /\ energy' = energy + delta_energy'
                  /\ magnetization' = magnetization
                       + (IF new_spin' = 1 THEN 1 ELSE -1)
                       - (IF old_spin' = 1 THEN 1 ELSE -1)
          /\ outcome' # "accepted" => lattice' = lattice]_vars

C5_Witness ==
  /\ delta_energy > 0 /\ u > 0 /\ outcome = "accepted"
  /\ lattice[x][y] = new_spin

\* C6: constructing with L <= 0 or n_states < 2 fails with InvalidConfiguration
\* and creates no model.
C6_InvalidConfigurationRaised ==
  (L <= 0 \/ n < 2) => (error = "InvalidConfiguration" /\ pc = "raised")

\* C7: a temperature <= 0 set before a pass raises InvalidTemperature and the
\* pass performs no trial and no acceptance draw.
C7_InvalidTemperatureRaised ==
  (T.sign <= 0 /\ pc # "idle")
    => (error = "InvalidTemperature" /\ i = 0 /\ u = NoDraw)

\* the population variance of xs as sum(x^2)/k - (sum(x)/k)^2
RECURSIVE SumSq(_, _)
SumSq(xs, k) == IF k = 0 THEN 0 ELSE SumSq(xs, k - 1) + xs[k] * xs[k]

IsPopulationVariance(q, xs) ==
  LET k == Len(xs)
      s == SumSeq(xs, k)
  IN q.den # 0 /\ q.num * k * k = (k * SumSq(xs, k) - s * s) * q.den

IsPrefix(a, b) == Len(a) <= Len(b) /\ SubSeq(b, 1, Len(a)) = a

\* the population variance of the last two entries of xs
IsWindowVariance(q, xs) ==
  IsPopulationVariance(q, SubSeq(xs, Len(xs) - 1, Len(xs)))

\* C8: after k completed passes driven by update(), energy_data and
\* magnetization_data hold k entries, entry k being the engine's energy and
\* magnetization right after pass k, earlier entries untouched;
\* specific_heat_data and susceptibility_data are empty after 1 pass and hold
\* k - 1 entries for k >= 2, each new entry made of the population variance of
\* the whole history so far, L^2 and the current pass's T.
C8_Histories ==
  [][/\ IsPrefix(energy_data, energy_data')
     /\ IsPrefix(magnetization_data, magnetization_data')
     /\ IsPrefix(specific_heat_data, specific_heat_data')
     /\ IsPrefix(susceptibility_data, susceptibility_data')
     /\ Len(energy_data') = frame' /\ Len(magnetization_data') = frame'
     /\ Len(specific_heat_data') = (IF frame' >= 2 THEN frame' - 1 ELSE 0)
     /\ Len(susceptibility_data') = (IF frame' >= 2 THEN frame' - 1 ELSE 0)
     /\ frame' \in {frame, frame + 1}
     /\ frame' = frame + 1
          => /\ energy_data'[frame'] = energy'
             /\ magnetization_data'[frame'] = magnetization'
             /\ frame' >= 2
                  => LET c == specific_heat_data'[frame' - 1]
                         s == susceptibility_data'[frame' - 1]
                     IN /\ IsPopulationVariance(c.var, energy_data')
                        /\ c.size2 = L * L /\ c.T = T' /\ c.Tpow = 2
                        /\ IsPopulationVariance(s.var, magnetization_data')
                        /\ s.size2 = L * L /\ s.T = T' /\ s.Tpow = 1]_vars

\* three passes with three different energies, two different temperatures,
\* and second entries whose whole-history variance is not the variance of the
\* last two entries
C8_Witness ==
  /\ frame = 3 /\ L = 2
  /\ Len(energy_data) = 3 /\ Len(magnetization_data) = 3
  /\ energy_data[1] # energy_data[2] /\ energy_data[2] # energy_data[3]
  /\ energy_data[1] # energy_data[3]
  /\ Len(specific_heat_data) = 2 /\ Len(susceptibility_data) = 2
  /\ specific_heat_data[1].T # specific_heat_data[2].T
  /\ specific_heat_data[2].T = T
  /\ IsPopulationVariance(specific_heat_data[1].var, SubSeq(energy_data, 1, 2))
  /\ IsPopulationVariance(specific_heat_data[2].var, energy_data)
  /\ ~IsWindowVariance(specific_heat_data[2].var, energy_data)
  /\ ~IsWindowVariance(susceptibility_data[2].var, magnetization_data)

Wrap(k) == IF k = L THEN 0 ELSE IF k = -1 THEN L - 1 ELSE k

\* C9: every cell value, the tentatively written proposal included, lies in
\* [0, n_states); every index read or written lies in [0, L); the neighbours
\* read for (x, y) are (x+1, y), (x-1, y), (x, y+1), (x, y-1) wrapped onto the
\* torus; for L = 3 site (0,0) reads (1,0), (2,0), (0,1), (0,2).
C9_InRange ==
  /\ \A p \in Sites : lattice[p[1]][p[2]] \in 0..(n - 1)
  /\ outcome # "none" => (new_spin \in 0..(n - 1) /\ old_spin \in 0..(n - 1))
  /\ reads # <<>>
       => /\ <<x, y>> \in Sites
          /\ \A k \in 1..4 : reads[k] \in Sites
          /\ reads = << <<Wrap(x + 1), y>>, <<Wrap(x - 1), y>>,
                        <<x, Wrap(y + 1)>>, <<x, Wrap(y - 1)>> >>
  /\ (L = 3 /\ reads # <<>> /\ x = 0 /\ y = 0)
       => reads = << <<1, 0>>, <<2, 0>>, <<0, 1>>, <<0, 2>> >>

C9_Witness ==
  /\ L = 3 /\ x = 0 /\ y = 0
  /\ reads = << <<1, 0>>, <<2, 0>>, <<0, 1>>, <<0, 2>> >>

\* C10: with H = 0, for every L >= 1 and n_states >= 2, the tracked energy
\* equals calculate_total_energy() of the current lattice after every
\* individual trial.
C10_EnergyConsistentNoField ==
  (ValidConfig /\ H = 0) => energy = calculate_total_energy(lattice, L, H)

C10_Witness ==
  /\ L = 2 /\ H = 0 /\ pc = "step" /\ outcome = "accepted"
  /\ delta_energy > 0 /\ energy = calculate_total_energy(lattice, L, H)
====
